---- MODULE Spec2Model ----
(***************************************************************************)
(* Model of beeget.py: download_latest_bee (Release Locator and Binary     *)
(* Installer), start_bee_node (Node Supervisor thread), query_bee_api      *)
(* (Orchestrator, Readiness Prober, Retrieval Client) and the __main__     *)
(* entry point.  Two threads of control: the main sequence (pc) and the    *)
(* daemon supervisor thread (sup); the child process is a third party.     *)
(***************************************************************************)
EXTENDS Integers, Sequences, FiniteSets, TLC

VARIABLES
    pc,              \* position of the main sequence
    swarmhash,       \* CLI argument
    os_name, arch,   \* platform.system().lower(), platform.machine()
    assets,          \* data.get('assets', []) of the metadata response
    download_url,    \* local of download_latest_bee
    stop_flag,       \* threading.Event shared with the supervisor
    bee_process,     \* value returned by bee_thread.join(timeout=1)
    retry_count,     \* local of the readiness loop
    resp_header,     \* Content-Disposition header of the retrieval response
    filename,        \* output filename chosen by the retrieval client
    sup,             \* position of the supervisor thread
    child,           \* the bee child process
    errKind, errType,\* failure that ended the main sequence
    errorLines, exitStatus, \* what the entry point printed / exit status
    \* observations of the environment (what the collaborators saw)
    metaRequests, assetRequests, attempts, sleeps, retrievals,
    setCalls, spawns, termRequests, forceTerminates, joinTimedOut

vars == << pc, swarmhash, os_name, arch, assets, download_url, stop_flag,
           bee_process, retry_count, resp_header, filename, sup, child,
           errKind, errType, errorLines, exitStatus, metaRequests,
           assetRequests, attempts, sleeps, retrievals, setCalls, spawns,
           termRequests, forceTerminates, joinTimedOut >>

\* ---------------------------------------------------------------- bounds
MaxAssets == 2
MaxHeaderLen == 7

\* ------------------------------------------------------------- constants
max_retries == 30

\* Python's None, as a value no asset name, URL or header text equals.
None == "<None>"

Min(S) == CHOOSE x \in S : \A y \in S : x <= y

\* ------------------------------------------------- Release Locator data
OSNames == {"linux", "darwin", "windows", "freebsd"}
Archs == {"x86_64", "arm64", "aarch64"}

filename_map ==
    [k \in { <<"linux", "x86_64">>, <<"linux", "arm64">>,
             <<"darwin", "x86_64">>, <<"darwin", "arm64">>,
             <<"windows", "x86_64">> } |->
        CASE k = <<"linux", "x86_64">>   -> "bee-linux-amd64"
          [] k = <<"linux", "arm64">>    -> "bee-linux-arm64"
          [] k = <<"darwin", "x86_64">>  -> "bee-darwin-amd64"
          [] k = <<"darwin", "arm64">>   -> "bee-darwin-arm64"
          [] k = <<"windows", "x86_64">> -> "bee-windows-amd64.exe"]

\* A lookup that guesses a default for a missing key.
filename_map_get_default(k) ==
    IF k \in DOMAIN filename_map THEN filename_map[k] ELSE "bee-linux-amd64"

\* dict.get: None for a missing key.
filename_map_get(k) ==
    IF k \in DOMAIN filename_map THEN filename_map[k] ELSE None

\* Asset names and URLs are JSON strings (never null); the URL may be empty.
AssetNames == {"bee-linux-amd64", "bee-darwin-arm64", "bee-windows-amd64.exe",
               "bee-linux-amd64.rpm"}
AssetURLs == {"", "https://dl/bee"}
Assets == [name : AssetNames, browser_download_url : AssetURLs]
AssetLists == UNION { [1..n -> Assets] : n \in 0..MaxAssets }

\* Python truthiness of download_url: None and "" are falsy.
Falsy(x) == x \in {None, ""}

\* The for loop with break: the URL of the first asset whose name matches.
SelectAsset(as, os, ar) ==
    LET want == filename_map_get(<<os, ar>>)
        idx  == { i \in 1..Len(as) : as[i].name = want }
    IN  IF idx = {} THEN None ELSE as[Min(idx)].browser_download_url

\* ------------------------------------------------- Retrieval Client data
\* A header value is a string over three symbols: the literal text
\* filename= , the double quote, and any other character.
FN == "filename="
QUOTE == "\""
CHR == "x"
HeaderChars == {FN, QUOTE, CHR}
HeaderTexts == UNION { [1..n -> HeaderChars] : n \in 0..MaxHeaderLen }

\* re.search(r'filename="(.*?)"', h): leftmost start, shortest group.
MatchStarts(h) ==
    { i \in 1..Len(h) : /\ i + 2 <= Len(h)
                        /\ h[i] = FN
                        /\ h[i+1] = QUOTE
                        /\ \E j \in (i+2)..Len(h) : h[j] = QUOTE }

\* None in the place of a text (a missing header, a failed search).
NoText == << None >>

\* A search that takes the last occurrence instead of the first.
re_search_last(h) ==
    IF MatchStarts(h) = {} THEN NoText
    ELSE LET i == CHOOSE x \in MatchStarts(h) : \A y \in MatchStarts(h) : y <= x
             j == Min({ k \in (i+2)..Len(h) : h[k] = QUOTE })
         IN  SubSeq(h, i+2, j-1)

\* match.group(1), or None when there is no match.
re_search(h) ==
    IF MatchStarts(h) = {} THEN NoText
    ELSE LET i == Min(MatchStarts(h))
             j == Min({ k \in (i+2)..Len(h) : h[k] = QUOTE })
         IN  SubSeq(h, i+2, j-1)

FallbackName(hash) == << "downloaded_file_", hash, ".dat" >>

\* Lines 150-160: header -> output filename.  header is NoText or a text;
\* "if content_disposition" and "if not filename" treat None and "" alike.
OutputFilename(header, hash) ==
    LET fromHeader ==
            IF header = NoText \/ header = << >> THEN NoText
            ELSE re_search(header)
    IN  IF fromHeader = NoText \/ fromHeader = << >>
        THEN FallbackName(hash)
        ELSE fromHeader

\* Headers the local gateway answers with in a full run.
SampleHeaders ==
    { NoText, << >>,
      << CHR, FN, QUOTE, CHR, CHR, QUOTE >>,
      << FN, QUOTE, QUOTE >>,
      << FN, CHR >> }

Swarmhashes == {"abc123", "0f"}

\* ------------------------------------------------------------------ Init
Init ==
    /\ pc = "fetch_meta"
    /\ swarmhash \in Swarmhashes
    /\ os_name \in OSNames
    /\ arch \in Archs
    /\ assets = << >>
    /\ download_url = None
    /\ stop_flag = FALSE
    /\ bee_process = None
    /\ retry_count = 0
    /\ resp_header = NoText
    /\ filename = NoText
    /\ sup = "unstarted"
    /\ child = "none"
    /\ errKind = "none"
    /\ errType = "none"
    /\ errorLines = 0
    /\ exitStatus = -1    \* the process has not exited yet
    /\ metaRequests = 0
    /\ assetRequests = 0
    /\ attempts = 0
    /\ sleeps = 0
    /\ retrievals = 0
    /\ setCalls = 0
    /\ spawns = 0
    /\ termRequests = 0
    /\ forceTerminates = 0
    /\ joinTimedOut = FALSE

platformVars == << swarmhash, os_name, arch >>
nodeVars == << sup, child, spawns, termRequests >>
probeVars == << retry_count, attempts, sleeps >>
retrVars == << resp_header, filename, retrievals >>
stopVars == << stop_flag, setCalls, bee_process, forceTerminates, joinTimedOut >>
exitVars == << errorLines, exitStatus >>

\* An exception of Python type ty leaves the main sequence.
Raise(kind, ty) ==
    /\ pc' = "failed"
    /\ errKind' = kind
    /\ errType' = ty

NoRaise == UNCHANGED << errKind, errType >>

\* ----------------------------------------- download_latest_bee (25-102)
\* Lines 37-44: the metadata request succeeds and yields the asset list.
MetadataOK ==
    /\ pc = "fetch_meta"
    /\ \E as \in AssetLists : assets' = as
    /\ metaRequests' = metaRequests + 1
    /\ pc' = "match"
    /\ NoRaise
    /\ UNCHANGED << platformVars, download_url, nodeVars, probeVars, retrVars,
                    stopVars, exitVars, assetRequests >>

\* Lines 37-41: the metadata request errors or returns a non-success status.
MetadataFail ==
    /\ pc = "fetch_meta"
    /\ metaRequests' = metaRequests + 1
    /\ Raise("ReleaseFetchError", "RuntimeError")
    /\ UNCHANGED << platformVars, assets, download_url, nodeVars, probeVars,
                    retrVars, stopVars, exitVars, assetRequests >>

\* Lines 46-66: platform lookup, asset loop, "not found" check.
LocateAsset ==
    /\ pc = "match"
    /\ LET url == SelectAsset(assets, os_name, arch)
       IN  /\ download_url' = url
           /\ IF Falsy(url)
              THEN Raise("UnsupportedPlatform", "RuntimeError")
              ELSE pc' = "mkdir" /\ NoRaise
    /\ UNCHANGED << platformVars, assets, nodeVars, probeVars, retrVars,
                    stopVars, exitVars, metaRequests, assetRequests >>

\* An install step that starts the supervisor thread before the download.
MakeDirOKStartsThread ==
    /\ pc = "mkdir"
    /\ pc' = "download"
    /\ sup' = "spawn"
    /\ NoRaise
    /\ UNCHANGED << platformVars, assets, download_url, child, spawns,
                    termRequests, probeVars, retrVars, stopVars, exitVars,
                    metaRequests, assetRequests >>

\* Lines 68-80: the install directory exists or os.makedirs creates it.
MakeDirOK ==
    /\ pc = "mkdir"
    /\ pc' = "download"
    /\ NoRaise
    /\ UNCHANGED << platformVars, assets, download_url, nodeVars, probeVars,
                    retrVars, stopVars, exitVars, metaRequests, assetRequests >>

\* Line 77: os.makedirs raises OSError; it is outside every try block.
MakeDirFail ==
    /\ pc = "mkdir"
    /\ Raise("FilesystemError", "OSError")
    /\ UNCHANGED << platformVars, assets, download_url, nodeVars, probeVars,
                    retrVars, stopVars, exitVars, metaRequests, assetRequests >>

\* Lines 83-92: the asset is requested and written to download_path.
DownloadOK ==
    /\ pc = "download"
    /\ assetRequests' = assetRequests + 1
    /\ pc' = "chmod"
    /\ NoRaise
    /\ UNCHANGED << platformVars, assets, download_url, nodeVars, probeVars,
                    retrVars, stopVars, exitVars, metaRequests >>

\* Lines 93-94: RequestException during the transfer.
DownloadFail ==
    /\ pc = "download"
    /\ assetRequests' = assetRequests + 1
    /\ Raise("DownloadError", "RuntimeError")
    /\ UNCHANGED << platformVars, assets, download_url, nodeVars, probeVars,
                    retrVars, stopVars, exitVars, metaRequests >>

\* Lines 95-96: OSError from makedirs(exist_ok)/open/write inside the try.
DownloadOSError ==
    /\ pc = "download"
    /\ assetRequests' = assetRequests + 1
    /\ Raise("FilesystemError", "RuntimeError")
    /\ UNCHANGED << platformVars, assets, download_url, nodeVars, probeVars,
                    retrVars, stopVars, exitVars, metaRequests >>

\* os.name == 'posix' on every system but Windows.
IsPosix(os) == os # "windows"

\* Lines 98-102: chmod on POSIX (skipped elsewhere), return download_path;
\* the asset list is a local of download_latest_bee and is gone on return.
ChmodOK ==
    /\ pc = "chmod"
    /\ pc' = "check_exists"
    /\ assets' = << >>
    /\ NoRaise
    /\ UNCHANGED << platformVars, download_url, nodeVars, probeVars,
                    retrVars, stopVars, exitVars, metaRequests, assetRequests >>

\* Line 100: os.chmod raises OSError; it is outside every try block.
ChmodFail ==
    /\ pc = "chmod"
    /\ IsPosix(os_name)
    /\ Raise("FilesystemError", "OSError")
    /\ UNCHANGED << platformVars, assets, download_url, nodeVars, probeVars,
                    retrVars, stopVars, exitVars, metaRequests, assetRequests >>

\* ------------------------------------------------ query_bee_api (104-182)
installVars == << assets, download_url, metaRequests, assetRequests >>

\* Line 117: the installed binary is on disk.
BinaryPresent ==
    /\ pc = "check_exists"
    /\ pc' = "start_thread"
    /\ NoRaise
    /\ UNCHANGED << platformVars, installVars, nodeVars, probeVars, retrVars,
                    stopVars, exitVars >>

\* Lines 117-118: the installed binary is not on disk.
BinaryMissing ==
    /\ pc = "check_exists"
    /\ Raise("BinaryMissing", "RuntimeError")
    /\ UNCHANGED << platformVars, installVars, nodeVars, probeVars, retrVars,
                    stopVars, exitVars >>

\* Lines 120-132: new Event, daemon thread started, retry_count = 0.
StartThread ==
    /\ pc = "start_thread"
    /\ stop_flag' = FALSE
    /\ sup' = "spawn"
    /\ retry_count' = 0
    /\ pc' = "probe"
    /\ NoRaise
    /\ UNCHANGED << platformVars, installVars, child, spawns, termRequests,
                    attempts, sleeps, retrVars, setCalls, bee_process,
                    forceTerminates, joinTimedOut, exitVars >>

\* A ceiling test that gives up one attempt early.
CeilingReachedEarly(rc) == rc >= max_retries - 1

\* A ceiling test that lets one more attempt through.
CeilingReachedLate(rc) == rc > max_retries

\* Line 141: retry_count >= max_retries.
CeilingReached(rc) == rc >= max_retries

\* Lines 134-138: sock.connect succeeds, break.
ProbeConnected ==
    /\ pc = "probe"
    /\ attempts' = attempts + 1
    /\ pc' = "retrieve"
    /\ NoRaise
    /\ UNCHANGED << platformVars, installVars, nodeVars, retry_count, sleeps,
                    retrVars, stopVars, exitVars >>

\* A failure branch that leaves the loop at the ceiling instead of raising.
ProbeRefusedBreaks ==
    /\ pc = "probe"
    /\ attempts' = attempts + 1
    /\ retry_count' = retry_count + 1
    /\ pc' = IF CeilingReached(retry_count + 1) THEN "retrieve" ELSE "sleep"
    /\ NoRaise
    /\ UNCHANGED << platformVars, installVars, nodeVars, sleeps, retrVars,
                    stopVars, exitVars >>

\* Lines 139-142: socket.timeout or ConnectionRefusedError; count it and
\* give up at the ceiling, otherwise go on to the sleep of line 143.
ProbeRefused ==
    /\ pc = "probe"
    /\ attempts' = attempts + 1
    /\ retry_count' = retry_count + 1
    /\ IF CeilingReached(retry_count + 1)
       THEN Raise("NodeStartTimeout", "RuntimeError")
       ELSE pc' = "sleep" /\ NoRaise
    /\ UNCHANGED << platformVars, installVars, nodeVars, sleeps, retrVars,
                    stopVars, exitVars >>

\* Line 143: time.sleep(1), then the next attempt.
ProbeSleep ==
    /\ pc = "sleep"
    /\ sleeps' = sleeps + 1
    /\ pc' = "probe"
    /\ NoRaise
    /\ UNCHANGED << platformVars, installVars, nodeVars, retry_count,
                    attempts, retrVars, stopVars, exitVars >>

\* Lines 146-166: GET succeeds, filename chosen, body written, name printed.
RetrieveOK ==
    /\ pc = "retrieve"
    /\ retrievals' = retrievals + 1
    /\ \E h \in SampleHeaders :
          /\ resp_header' = h
          /\ filename' = OutputFilename(h, swarmhash)
    /\ pc' = "set_in_try"
    /\ NoRaise
    /\ UNCHANGED << platformVars, installVars, nodeVars, probeVars, stopVars,
                    exitVars >>

\* Lines 146-147, 171-172: non-success status or transport error.
RetrieveFail ==
    /\ pc = "retrieve"
    /\ retrievals' = retrievals + 1
    /\ Raise("RetrievalError", "RuntimeError")
    /\ UNCHANGED << platformVars, installVars, nodeVars, probeVars,
                    resp_header, filename, stopVars, exitVars >>

\* Line 162: open(filename, 'wb') raises OSError, which line 171 does not catch.
RetrieveOSError ==
    /\ pc = "retrieve"
    /\ retrievals' = retrievals + 1
    /\ \E h \in SampleHeaders :
          /\ resp_header' = h
          /\ filename' = OutputFilename(h, swarmhash)
    /\ Raise("OutputWriteError", "OSError")
    /\ UNCHANGED << platformVars, installVars, nodeVars, probeVars, stopVars,
                    exitVars >>

\* Line 169: stop_flag.set() inside the try block.
SetInTry ==
    /\ pc = "set_in_try"
    /\ stop_flag' = TRUE
    /\ setCalls' = setCalls + 1
    /\ pc' = "set_final"
    /\ NoRaise
    /\ UNCHANGED << platformVars, installVars, nodeVars, probeVars, retrVars,
                    bee_process, forceTerminates, joinTimedOut, exitVars >>

\* A second call that clears the Event instead of setting it.
SetFinalClears ==
    /\ pc = "set_final"
    /\ stop_flag' = FALSE
    /\ setCalls' = setCalls + 1
    /\ pc' = "join"
    /\ NoRaise
    /\ UNCHANGED << platformVars, installVars, nodeVars, probeVars, retrVars,
                    bee_process, forceTerminates, joinTimedOut, exitVars >>

\* Line 176: stop_flag.set() after the try block.
SetFinal ==
    /\ pc = "set_final"
    /\ stop_flag' = TRUE
    /\ setCalls' = setCalls + 1
    /\ pc' = "join"
    /\ NoRaise
    /\ UNCHANGED << platformVars, installVars, nodeVars, probeVars, retrVars,
                    bee_process, forceTerminates, joinTimedOut, exitVars >>

\* The supervisor thread has ended (returned, or died of an exception).
ThreadEnded == sup \in {"finished", "crashed"}

\* Thread.join returns None, whether or not the timeout elapsed.
JoinResult == None

\* Line 179: join returns because the supervisor thread has ended.
JoinFinished ==
    /\ pc = "join"
    /\ ThreadEnded
    /\ bee_process' = JoinResult
    /\ joinTimedOut' = FALSE
    /\ pc' = "after_join"
    /\ NoRaise
    /\ UNCHANGED << platformVars, installVars, nodeVars, probeVars, retrVars,
                    stop_flag, setCalls, forceTerminates, exitVars >>

\* A join without a timeout: it returns only once the thread has ended.
JoinNoTimeout ==
    /\ pc = "join"
    /\ ThreadEnded
    /\ bee_process' = JoinResult
    /\ joinTimedOut' = FALSE
    /\ pc' = "after_join"
    /\ NoRaise
    /\ UNCHANGED << platformVars, installVars, nodeVars, probeVars, retrVars,
                    stop_flag, setCalls, forceTerminates, exitVars >>

\* Line 179: the 1 second elapses with the supervisor thread still alive.
JoinTimeout ==
    /\ pc = "join"
    /\ ~ThreadEnded
    /\ bee_process' = JoinResult
    /\ joinTimedOut' = TRUE
    /\ pc' = "after_join"
    /\ NoRaise
    /\ UNCHANGED << platformVars, installVars, nodeVars, probeVars, retrVars,
                    stop_flag, setCalls, forceTerminates, exitVars >>

\* Lines 180-182: terminate only if join returned something.
AfterJoin ==
    /\ pc = "after_join"
    /\ forceTerminates' = IF bee_process # None THEN forceTerminates + 1
                          ELSE forceTerminates
    /\ pc' = "done"
    /\ NoRaise
    /\ UNCHANGED << platformVars, installVars, nodeVars, probeVars, retrVars,
                    stop_flag, setCalls, bee_process, joinTimedOut, exitVars >>

\* --------------------------------------------------- __main__ (184-192)
mainVars == << platformVars, installVars, probeVars, retrVars, stopVars,
               errKind, errType >>

\* Line 190 returns normally.
ExitOK ==
    /\ pc = "done"
    /\ exitStatus' = 0
    /\ pc' = "exited"
    /\ UNCHANGED << mainVars, nodeVars, errorLines >>

\* Lines 191-192: RuntimeError caught, one line printed, normal exit.
HandleRuntimeError ==
    /\ pc = "failed"
    /\ errType = "RuntimeError"
    /\ errorLines' = errorLines + 1
    /\ exitStatus' = 0
    /\ pc' = "exited"
    /\ UNCHANGED << mainVars, nodeVars >>

\* Any other exception is not caught: traceback, exit status 1.
UncaughtError ==
    /\ pc = "failed"
    /\ errType # "RuntimeError"
    /\ exitStatus' = 1
    /\ pc' = "exited"
    /\ UNCHANGED << mainVars, nodeVars, errorLines >>

\* ------------------------------------------------ start_bee_node (12-23)
\* The thread is a daemon: it runs only while the interpreter does.
Alive == pc # "exited"

\* Line 16: Popen starts the child.
SpawnOK ==
    /\ Alive /\ sup = "spawn"
    /\ child' = "running"
    /\ spawns' = spawns + 1
    /\ sup' = "poll"
    /\ UNCHANGED << pc, mainVars, exitVars, termRequests >>

\* Line 16: Popen raises inside the thread; the thread dies, nobody is told.
SpawnFail ==
    /\ Alive /\ sup = "spawn"
    /\ sup' = "crashed"
    /\ UNCHANGED << pc, mainVars, exitVars, child, spawns, termRequests >>

\* A loop test that leaves the loop although the flag is unset.
PollUnsetLeaves ==
    /\ Alive /\ sup = "poll"
    /\ ~stop_flag
    /\ sup' = "terminate"
    /\ UNCHANGED << pc, mainVars, exitVars, child, spawns, termRequests >>

\* Line 17: the flag is unset, enter the loop body.
PollUnset ==
    /\ Alive /\ sup = "poll"
    /\ ~stop_flag
    /\ sup' = "yield"
    /\ UNCHANGED << pc, mainVars, exitVars, child, spawns, termRequests >>

\* Line 19: time.sleep(0), back to the test.
Yield ==
    /\ Alive /\ sup = "yield"
    /\ sup' = "poll"
    /\ UNCHANGED << pc, mainVars, exitVars, child, spawns, termRequests >>

\* Line 17: the flag is set, leave the loop.
PollSet ==
    /\ Alive /\ sup = "poll"
    /\ stop_flag
    /\ sup' = "terminate"
    /\ UNCHANGED << pc, mainVars, exitVars, child, spawns, termRequests >>

\* Line 22: process.terminate().
Terminate ==
    /\ Alive /\ sup = "terminate"
    /\ termRequests' = termRequests + 1
    /\ sup' = "wait"
    /\ UNCHANGED << pc, mainVars, exitVars, child, spawns >>

\* Line 23: process.wait() returns once the child has exited.
WaitReturns ==
    /\ Alive /\ sup = "wait"
    /\ child = "exited"
    /\ sup' = "finished"
    /\ UNCHANGED << pc, mainVars, exitVars, child, spawns, termRequests >>

\* The child process exits (on the request, or on its own).
ChildExits ==
    /\ child = "running"
    /\ child' = "exited"
    /\ UNCHANGED << pc, mainVars, exitVars, sup, spawns, termRequests >>

\* ------------------------------------------------------------------ Next
Next ==
    \/ MetadataOK \/ MetadataFail \/ LocateAsset
    \/ MakeDirOK \/ MakeDirFail
    \/ DownloadOK \/ DownloadFail \/ DownloadOSError
    \/ ChmodOK \/ ChmodFail
    \/ BinaryPresent \/ BinaryMissing \/ StartThread
    \/ ProbeConnected \/ ProbeRefused \/ ProbeSleep
    \/ RetrieveOK \/ RetrieveFail \/ RetrieveOSError
    \/ SetInTry \/ SetFinal
    \/ JoinFinished \/ JoinTimeout \/ AfterJoin
    \/ ExitOK \/ HandleRuntimeError \/ UncaughtError
    \/ SpawnOK \/ SpawnFail \/ PollUnset \/ Yield \/ PollSet
    \/ Terminate \/ WaitReturns \/ ChildExits

Spec == Init /\ [][Next]_vars

\* The steps of the main sequence and of the supervisor thread.
MainStep ==
    \/ MetadataOK \/ MetadataFail \/ LocateAsset
    \/ MakeDirOK \/ MakeDirFail
    \/ DownloadOK \/ DownloadFail \/ DownloadOSError
    \/ ChmodOK \/ ChmodFail
    \/ BinaryPresent \/ BinaryMissing \/ StartThread
    \/ ProbeConnected \/ ProbeRefused \/ ProbeSleep
    \/ RetrieveOK \/ RetrieveFail \/ RetrieveOSError
    \/ SetInTry \/ SetFinal
    \/ JoinFinished \/ JoinTimeout \/ AfterJoin
    \/ ExitOK \/ HandleRuntimeError \/ UncaughtError

SupervisorStep ==
    \/ SpawnOK \/ SpawnFail \/ PollUnset \/ Yield \/ PollSet
    \/ Terminate \/ WaitReturns

\* The supervisor thread keeps being scheduled while it can run (its loop
\* yields with time.sleep(0)); nothing is assumed of the main sequence or of
\* the child.
SpecSupervisorFair == Init /\ [][Next]_vars /\ WF_vars(SupervisorStep)

\* Every external call of the main sequence returns or fails, and the main
\* thread keeps running; nothing is assumed of the supervisor or the child.
SpecMainFair == Init /\ [][Next]_vars /\ WF_vars(MainStep)

\* ------------------------------------- filename selection on its own
\* The response header ranges over every text up to MaxHeaderLen (and the
\* missing header); the single step applies lines 150-160 to it.
InitFilename ==
    /\ pc = "response"
    /\ swarmhash \in Swarmhashes
    /\ resp_header \in HeaderTexts \cup {NoText}
    /\ os_name = "linux" /\ arch = "x86_64"
    /\ assets = << >>
    /\ download_url = "https://dl/bee"
    /\ stop_flag = FALSE
    /\ bee_process = None
    /\ retry_count = 0
    /\ filename = NoText
    /\ sup = "poll"
    /\ child = "running"
    /\ errKind = "none"
    /\ errType = "none"
    /\ errorLines = 0
    /\ exitStatus = -1    \* the process has not exited yet
    /\ metaRequests = 1
    /\ assetRequests = 1
    /\ attempts = 1
    /\ sleeps = 0
    /\ retrievals = 1
    /\ setCalls = 0
    /\ spawns = 1
    /\ termRequests = 0
    /\ forceTerminates = 0
    /\ joinTimedOut = FALSE

\* Lines 150-160 applied to the response header.
ChooseFilename ==
    /\ pc = "response"
    /\ filename' = OutputFilename(resp_header, swarmhash)
    /\ pc' = "named"
    /\ UNCHANGED << platformVars, installVars, nodeVars, probeVars, stopVars,
                    exitVars, errKind, errType, resp_header, retrievals >>

NextFilename == ChooseFilename

SpecFilename == InitFilename /\ [][NextFilename]_vars

\* ================================================================ claims

\* C1: whenever the retrieval request fails, the Stop Signal is set by the
\* time the orchestrator hands the error to its caller.
C1_StopSetOnRetrievalFailure ==
    errKind = "RetrievalError" => stop_flag

\* C2: a target that never accepts gets exactly 30 attempts, one sleep
\* between consecutive attempts, then NodeStartTimeout; no 31st attempt and
\* the retry counter never exceeds 30.
AllAttemptsFailed == attempts = retry_count

C2_NeverAccepting ==
    /\ retry_count <= 30
    /\ attempts <= 30
    /\ (errKind = "NodeStartTimeout" =>
            /\ AllAttemptsFailed
            /\ attempts = 30
            /\ sleeps = 29
            /\ errType = "RuntimeError")
    /\ (AllAttemptsFailed /\ attempts = 30 => errKind = "NodeStartTimeout")
    /\ (AllAttemptsFailed /\ pc = "probe" => sleeps = attempts)
    /\ (AllAttemptsFailed /\ pc = "sleep" => sleeps = attempts - 1)

C2_Witness ==
    /\ errKind = "NodeStartTimeout"
    /\ attempts = 30
    /\ sleeps = 29

\* C3: a target that accepts on attempt N (1 <= N <= 30) makes the prober
\* return after exactly N attempts and N-1 sleeps, with nothing after the
\* successful attempt; the budget is not given up before attempt 30.
ProbeSucceeded ==
    \/ pc \in {"retrieve", "set_in_try", "set_final", "join", "after_join",
               "done"}
    \/ /\ pc \in {"failed", "exited"}
       /\ errKind \in {"none", "RetrievalError", "OutputWriteError"}

C3_AcceptingOnNth ==
    /\ (ProbeSucceeded =>
            /\ attempts \in 1..30
            /\ retry_count = attempts - 1
            /\ sleeps = attempts - 1)
    /\ (pc = "probe" => attempts < 30 /\ sleeps = attempts)
    /\ (errKind = "NodeStartTimeout" => attempts >= 30)

C3_Witness ==
    /\ ProbeSucceeded
    /\ attempts = 30
    /\ sleeps = 29

\* C4: when the bounded join elapses and the node process has not exited,
\* the orchestrator force-terminates the node process.
C4_ForceTerminateAfterTimeout ==
    (pc \in {"done", "exited"} /\ joinTimedOut /\ child = "running")
        => forceTerminates >= 1

\* C5: a spawn failure reaches the caller of the supervisor start before any
\* readiness probe is attempted.
C5_SpawnErrorPropagates ==
    sup = "crashed" => (pc \in {"failed", "exited"} /\ attempts = 0)

\* C6: a successful run ends with exactly one spawn and exactly one
\* termination request.
SuccessfulRun == pc = "exited" /\ errKind = "none"

C6_OneStartOneStop ==
    SuccessfulRun => (spawns = 1 /\ termRequests = 1)

\* C7: a run that reached the retrieval client has set the Stop Signal
\* exactly once by the time it ends.
C7_StopSetExactlyOnce ==
    (pc = "exited" /\ retrievals >= 1) => setCalls = 1

\* C8: on a platform absent from the table the locator fails with
\* UnsupportedPlatform whatever asset list the metadata call returned; the
\* metadata request precedes the match and no asset is ever requested.
Supported(os, ar) == << os, ar >> \in DOMAIN filename_map

C8_UnsupportedPlatform ==
    /\ (pc = "match" => metaRequests = 1)
    /\ (~Supported(os_name, arch) =>
            /\ assetRequests = 0
            /\ pc \in {"fetch_meta", "match", "failed", "exited"}
            /\ (pc \in {"failed", "exited"} =>
                    errKind \in {"ReleaseFetchError", "UnsupportedPlatform"})
            /\ (errKind = "UnsupportedPlatform" =>
                    metaRequests = 1 /\ errType = "RuntimeError"))

C8_Witness ==
    /\ ~Supported(os_name, arch)
    /\ errKind = "UnsupportedPlatform"
    /\ Len(assets) = MaxAssets
    /\ \E i \in 1..Len(assets) : assets[i].browser_download_url # ""

\* C9: every component failure kind ends in exactly one printed
\* 'Error: ...' line and a normal exit.
ComponentFailureKinds ==
    {"UnsupportedPlatform", "ReleaseFetchError", "DownloadError",
     "FilesystemError", "NodeStartTimeout", "RetrievalError"}

C9_SingleTopLevelError ==
    (pc = "exited" /\ errKind \in ComponentFailureKinds)
        => (errorLines = 1 /\ exitStatus = 0)

\* C10 as stated: a header containing some non-empty quoted token
\* filename="X" names the file X; every other header gives the fallback.
\* The quoted tokens of a header, as (start, closing quote) positions.
QuotedTokens(h) ==
    { t \in (1..Len(h)) \X (1..Len(h)) :
        /\ t[2] >= t[1] + 2
        /\ h[t[1]] = FN
        /\ h[t[1] + 1] = QUOTE
        /\ h[t[2]] = QUOTE
        /\ \A k \in (t[1] + 2)..(t[2] - 1) : h[k] # QUOTE }

TokenText(h, t) == SubSeq(h, t[1] + 2, t[2] - 1)

NonEmptyTokenTexts(h) ==
    { TokenText(h, t) : t \in { u \in QuotedTokens(h) : u[2] > u[1] + 2 } }

HeaderHasText == resp_header # NoText

C10_AnyNonEmptyToken ==
    pc = "named" =>
        IF HeaderHasText /\ NonEmptyTokenTexts(resp_header) # {}
        THEN filename \in NonEmptyTokenTexts(resp_header)
        ELSE filename = FallbackName(swarmhash)

\* C10 amended: the file is named X when the first (leftmost) quoted token
\* filename="X" of the header is non-empty; with no header, no quoted token,
\* or an empty first quoted token, it is named downloaded_file_{hash}.dat.
FirstToken(h) ==
    CHOOSE t \in QuotedTokens(h) : \A u \in QuotedTokens(h) : t[1] <= u[1]

C10_FirstToken ==
    pc = "named" =>
        IF /\ HeaderHasText
           /\ QuotedTokens(resp_header) # {}
           /\ TokenText(resp_header, FirstToken(resp_header)) # << >>
        THEN filename = TokenText(resp_header, FirstToken(resp_header))
        ELSE filename = FallbackName(swarmhash)

C10_Witness ==
    /\ pc = "named"
    /\ HeaderHasText
    /\ Cardinality(QuotedTokens(resp_header)) >= 2
    /\ TokenText(resp_header, FirstToken(resp_header)) # << >>
    /\ filename = TokenText(resp_header, FirstToken(resp_header))

\* C11: when the release locator or the binary installer fails, the run has
\* spawned no child, started no supervisor thread and made no readiness
\* probe or retrieval request.
InstallFailureKinds ==
    {"ReleaseFetchError", "UnsupportedPlatform", "DownloadError",
     "FilesystemError"}

C11_NoNodeOnInstallFailure ==
    errKind \in InstallFailureKinds =>
        /\ spawns = 0
        /\ child = "none"
        /\ sup = "unstarted"
        /\ attempts = 0
        /\ retrievals = 0

C11_Witness ==
    /\ pc = "exited"
    /\ errKind = "DownloadError"
    /\ assetRequests = 1
    /\ sup = "unstarted"

\* C12: the program never ends while a spawned child is still running and
\* was never sent a termination request.
C12_ChildAskedToStop ==
    (pc = "exited" /\ spawns >= 1 /\ child = "running")
        => termRequests + forceTerminates >= 1

\* C13: the orchestrator's events happen only in the order metadata fetch,
\* install, supervisor start, readiness probe, retrieval, Stop Signal set,
\* join; no retrieval without a successful probe, no supervisor without a
\* completed install.
InstallCompleted ==
    /\ metaRequests = 1
    /\ assetRequests = 1
    /\ ~Falsy(download_url)
    /\ pc \notin {"fetch_meta", "match", "mkdir", "download", "chmod"}
    /\ errKind \notin InstallFailureKinds

SupervisorStarted == sup # "unstarted"

JoinReturned ==
    \/ pc \in {"after_join", "done"}
    \/ pc = "exited" /\ errKind = "none"

C13_EventOrder ==
    /\ (assetRequests >= 1 => metaRequests = 1)
    /\ (SupervisorStarted =>
            InstallCompleted /\ pc \notin {"check_exists", "start_thread"})
    /\ (attempts >= 1 => SupervisorStarted)
    /\ (retrievals >= 1 =>
            /\ retrievals = 1
            /\ attempts = retry_count + 1
            /\ pc \notin {"probe", "sleep"})
    /\ (setCalls >= 1 => retrievals = 1 /\ pc # "retrieve")
    /\ (stop_flag => setCalls >= 1)
    /\ (JoinReturned => setCalls = 2 /\ stop_flag)

C13_Witness ==
    /\ pc = "done"
    /\ metaRequests = 1
    /\ assetRequests = 1
    /\ attempts = 3
    /\ retrievals = 1
    /\ setCalls = 2

\* C14: the supervisor sends no termination request while the Stop Signal
\* is unset; once the signal is set and the thread keeps being scheduled it
\* eventually sends the request; it does not finish before the child exited.
C14_Supervisor ==
    /\ []((termRequests >= 1 \/ sup \in {"terminate", "wait", "finished"})
            => stop_flag)
    /\ [](termRequests <= 1)
    /\ [](sup = "finished" => (child = "exited" /\ termRequests = 1))
    /\ ((stop_flag /\ sup \in {"poll", "yield"})
            ~> (termRequests >= 1 \/ ~Alive))

C14_Witness ==
    /\ sup = "finished"
    /\ child = "exited"
    /\ termRequests = 1
    /\ stop_flag

\* C15: the Stop Signal never goes back from set to unset, a set() on a set
\* signal changes nothing else, only the main sequence writes it and a step
\* of the supervisor or of the child leaves it alone.
C15_StopSignalMonotonic ==
    /\ [][stop_flag => stop_flag']_vars
    /\ [][(stop_flag /\ setCalls' # setCalls) =>
            (stop_flag' /\ nodeVars' = nodeVars)]_vars
    /\ [][(stop_flag' # stop_flag) =>
            (pc \in {"set_in_try", "set_final"} /\ pc' # pc
             /\ setCalls' = setCalls + 1 /\ nodeVars' = nodeVars)]_vars
    /\ [][(nodeVars' # nodeVars) =>
            (stop_flag' = stop_flag /\ setCalls' = setCalls)]_vars

C15_Witness ==
    /\ stop_flag
    /\ setCalls = 2
    /\ termRequests = 1

\* C16: the main sequence of query_bee_api always ends: at most 30 probe
\* attempts, and the join returns even when the child never exits and the
\* supervisor stays blocked in process.wait().
QueryReturned == pc \in {"done", "failed", "exited"}

C16_MainTerminates ==
    /\ <>QueryReturned
    /\ [](attempts <= 30)
    /\ ((pc = "join") ~> (pc = "after_join"))

C16_Witness ==
    /\ pc = "done"
    /\ joinTimedOut
    /\ sup = "wait"
    /\ child = "running"
    /\ termRequests = 1

====
